---- MODULE Spec2Model ----
(***************************************************************************)
(* On-call Slack notifier: the Socket Mode listener of src/src/index.js    *)
(* (keyword list, shouldAlert, the app_mention and message listeners) and  *)
(* the macOS actuator of src/src/macAlert.js (triggerMacAlert).            *)
(*                                                                         *)
(* Strings are TLA+ strings; a character is a string of length 1.          *)
(***************************************************************************)
EXTENDS Naturals, Sequences, FiniteSets, TLC

(***************************************************************************)
(* Bounds of the model.                                                    *)
(***************************************************************************)
\* number of events the transport delivers in one run
MaxEvents == 2
\* longest raw ALERT_KEYWORDS value drawn by MatchInit
MaxRawLen == 4
\* longest message text drawn by MatchNext
MaxTextLen == 3
\* how many direct calls of triggerMacAlert are made
MaxCalls == 1

(***************************************************************************)
(* String primitives of JavaScript used by index.js.                       *)
(***************************************************************************)
UpperCaseLetters == "ABCDEFGHIJKLMNOPQRSTUVWXYZ"
LowerCaseLetters == "abcdefghijklmnopqrstuvwxyz"

CharAt(s, i) == SubSeq(s, i, i)

\* the upper-case letters as a set
UpperCaseSet == { CharAt(UpperCaseLetters, i) : i \in 1..Len(UpperCaseLetters) }

\* String.prototype.toLowerCase on one character (ASCII letters)
LowerChar(c) ==
  IF c \in UpperCaseSet
  THEN CharAt(LowerCaseLetters,
              CHOOSE i \in 1..Len(UpperCaseLetters) : CharAt(UpperCaseLetters, i) = c)
  ELSE c

RECURSIVE toLowerCase(_)
toLowerCase(s) ==
  IF Len(s) = 0 THEN "" ELSE LowerChar(CharAt(s, 1)) \o toLowerCase(SubSeq(s, 2, Len(s)))

\* String.prototype.startsWith at a position
StartsAt(s, k, i) == i + Len(k) - 1 <= Len(s) /\ SubSeq(s, i, i + Len(k) - 1) = k

\* String.prototype.includes: scan the positions left to right
RECURSIVE IncludesFrom(_, _, _)
IncludesFrom(s, k, i) ==
  IF i + Len(k) - 1 > Len(s) THEN FALSE
  ELSE IF StartsAt(s, k, i) THEN TRUE
  ELSE IncludesFrom(s, k, i + 1)

includes(s, k) == IncludesFrom(s, k, 1)

IsSpace(c) == c \in {" ", "\t", "\n"}

\* String.prototype.trim
RECURSIVE trimStart(_)
trimStart(s) ==
  IF Len(s) > 0 /\ IsSpace(CharAt(s, 1)) THEN trimStart(SubSeq(s, 2, Len(s))) ELSE s

RECURSIVE trimEnd(_)
trimEnd(s) ==
  IF Len(s) > 0 /\ IsSpace(CharAt(s, Len(s))) THEN trimEnd(SubSeq(s, 1, Len(s) - 1)) ELSE s

trim(s) == trimEnd(trimStart(s))

\* String.prototype.split(','): the pieces between the commas, in order
RECURSIVE SplitFrom(_, _, _)
SplitFrom(s, i, cur) ==
  IF i > Len(s) THEN <<cur>>
  ELSE IF CharAt(s, i) = "," THEN <<cur>> \o SplitFrom(s, i + 1, "")
  ELSE SplitFrom(s, i + 1, cur \o CharAt(s, i))

split(s) == SplitFrom(s, 1, "")

\* Array.prototype.map(k => k.trim())
mapTrim(xs) == [i \in 1..Len(xs) |-> trim(xs[i])]

\* Boolean(k) of a string: the empty string is falsy
Truthy(k) == Len(k) > 0

\* Array.prototype.filter(Boolean)
RECURSIVE filterBoolean(_)
filterBoolean(xs) ==
  IF Len(xs) = 0 THEN <<>>
  ELSE IF Truthy(Head(xs)) THEN <<Head(xs)>> \o filterBoolean(Tail(xs))
  ELSE filterBoolean(Tail(xs))

(***************************************************************************)
(* The process environment: a function from the names of the variables     *)
(* that are set to their values.  index.js reads ALERT_KEYWORDS only; the  *)
(* other names are the settings the README documents.                      *)
(***************************************************************************)
Environments ==
  { [ALERT_KEYWORDS |-> "urgent",
     KEYWORD_PATTERNS |-> "room\\s+\\d+",
     CHANNEL_ALLOWLIST |-> "general,it-support",
     CHANNEL_BLOCKLIST |-> "general"] }

\* process.env.NAME || dflt
EnvOr(e, name, dflt) == IF name \in DOMAIN e /\ Len(e[name]) > 0 THEN e[name] ELSE dflt

\* variant of LoadAlertKeywords: the .map(k => k.trim()) is left out
LoadAlertKeywordsUntrimmed(e) == filterBoolean(split(EnvOr(e, "ALERT_KEYWORDS", "")))

\* variant of LoadAlertKeywords: the .filter(Boolean) is left out
LoadAlertKeywordsUnfiltered(e) == mapTrim(split(EnvOr(e, "ALERT_KEYWORDS", "")))

\* const alertKeywords = (process.env.ALERT_KEYWORDS || '').split(',').map(k => k.trim()).filter(Boolean)
LoadAlertKeywords(e) == filterBoolean(mapTrim(split(EnvOr(e, "ALERT_KEYWORDS", ""))))

(***************************************************************************)
(* Events of the Slack transport.  A message is identified by its channel  *)
(* and ts; ts is the message's timestamp in minutes, 0 stands for an       *)
(* absent ts.  hasText is ('text' in message); bot is the presence of      *)
(* bot_id; mentionsApp is whether the message at-mentions the app.         *)
(***************************************************************************)
Msg(channel, ts, hasText, text, bot, mentionsApp) ==
  [channel |-> channel, ts |-> ts, hasText |-> hasText, text |-> text, bot |-> bot,
   mentionsApp |-> mentionsApp]

\* the messages posted in the workspace
Messages ==
  { Msg("it-support", 1, TRUE, "This is URGENT please help", FALSE, TRUE),
    Msg("it-support", 2, TRUE, "urgent: room 205", FALSE, FALSE),
    Msg("it-support", 6, TRUE, "Urgent again", FALSE, FALSE),
    Msg("it-support", 3, TRUE, "urgent build", TRUE, FALSE),
    Msg("it-support", 4, TRUE, "room 204 needs help", FALSE, TRUE),
    Msg("general", 1, TRUE, "urgent lunch", FALSE, FALSE),
    Msg("general", 2, FALSE, "", FALSE, TRUE) }

EventOf(kind, m) ==
  [kind |-> kind, channel |-> m.channel, ts |-> m.ts, hasText |-> m.hasText,
   text |-> m.text, bot |-> m.bot]

\* every message may reach the message listener; one that mentions the app
\* may reach the app_mention listener as well
Events ==
  { EventOf("message", m) : m \in Messages }
  \cup { EventOf("app_mention", m) : m \in { x \in Messages : x.mentionsApp } }

\* the Slack message an event is about
MessageOf(ev) == [channel |-> ev.channel, ts |-> ev.ts]

SameMessage(a, b) == MessageOf(a) = MessageOf(b)

\* all strings over an alphabet, up to a length
RECURSIVE StringsUpTo(_, _)
StringsUpTo(alphabet, n) ==
  IF n = 0 THEN {""}
  ELSE LET shorter == StringsUpTo(alphabet, n - 1)
       IN  shorter \cup { s \o c : s \in shorter, c \in alphabet }

\* raw ALERT_KEYWORDS values: keywords, commas and blanks in any arrangement
RawKeywordValues == StringsUpTo({"a", "B", ",", " "}, MaxRawLen)

\* one message with any short text, or with no text field
MatchEvents ==
  { EventOf(kind, Msg("it-support", 1, TRUE, t, FALSE, TRUE)) :
      kind \in {"app_mention", "message"}, t \in StringsUpTo({"a", "A", "b"}, MaxTextLen) }
  \cup { EventOf(kind, Msg("it-support", 1, FALSE, "", FALSE, TRUE)) :
      kind \in {"app_mention", "message"} }
  \cup { EventOf(kind, Msg("it-support", 1, TRUE, "This is URGENT please help", FALSE, TRUE)) :
      kind \in {"app_mention", "message"} }

(***************************************************************************)
(* State.                                                                  *)
(***************************************************************************)
VARIABLES
  env,            \* process.env, fixed when the process starts
  alertKeywords,  \* index.js: const alertKeywords
  delivered,      \* the events the transport has handed to a listener
  alerts,         \* the calls of triggerMacAlert, each with its progress
  errorLog,       \* number of logger.error calls of the listeners
  running,        \* the process is alive
  alertAfterFailure  \* history: triggerMacAlert was called for an event that
                     \* arrived after an actuator step had failed

vars == <<env, alertKeywords, delivered, alerts, errorLog, running, alertAfterFailure>>

(***************************************************************************)
(* index.js: shouldAlert.                                                  *)
(***************************************************************************)
\* variant of SomeKeywordIncluded: the keyword is not lower-cased
SomeKeywordIncludedRaw(lower) ==
  \E i \in 1..Len(alertKeywords) : includes(lower, alertKeywords[i])

\* alertKeywords.some(k => lower.includes(k.toLowerCase()))
SomeKeywordIncluded(lower) ==
  \E i \in 1..Len(alertKeywords) : includes(lower, toLowerCase(alertKeywords[i]))

\* variant of shouldAlert: the mention test is left out
shouldAlertKeywordsOnly(text, mentions) == SomeKeywordIncluded(toLowerCase(text))

\* variant of shouldAlert: the text is not lower-cased
shouldAlertCaseSensitive(text, mentions) ==
  IF Len(mentions) > 0 THEN TRUE ELSE SomeKeywordIncluded(text)

\* function shouldAlert(text, mentions)
shouldAlert(text, mentions) ==
  LET lower == toLowerCase(text)
  IN  IF Len(mentions) > 0 THEN TRUE ELSE SomeKeywordIncluded(lower)

(***************************************************************************)
(* macAlert.js: triggerMacAlert.  A call is a record; pc is the await the  *)
(* call is suspended at ("beep", "focus", "open"), "done" once it has      *)
(* returned, "thrown" when notifier.notify threw.                          *)
(***************************************************************************)
\* title || 'On-Call Alert'
OrDefault(v, dflt) == IF Len(v) > 0 THEN v ELSE dflt

\* notifier.notify({ title, message, subtitle, ... })
Notification(args) ==
  [title    |-> OrDefault(args.title, "On-Call Alert"),
   message  |-> OrDefault(args.message, "You have a new on-call mention"),
   subtitle |-> IF Len(args.channel) > 0 THEN "Channel: " \o args.channel ELSE ""]

\* variant of HasLink: if (channel || ts)
HasLinkEither(args) == Len(args.channel) > 0 \/ args.ts # 0

\* if (channel && ts)
HasLink(args) == Len(args.channel) > 0 /\ args.ts # 0

\* slack://channel?team=..&id=<channel>&message=<ts>
DeepLink(args) ==
  [team |-> EnvOr(env, "SLACK_TEAM_ID", ""), id |-> args.channel, message |-> args.ts]

NoLink == [team |-> "", id |-> "", message |-> 0]

\* some actuator step of some call has failed so far
AnyFailure == \E a \in alerts : a.failed # {}

\* the call up to its first await: notify, then the beep is started.
\* event is history: the event the call was made for
StartAlert(ev, args, notifyOk) ==
  [event  |-> ev,
   args   |-> args,
   shown  |-> Notification(args),
   steps  |-> IF notifyOk THEN <<"notify", "beep">> ELSE <<"notify">>,
   failed |-> IF notifyOk THEN {} ELSE {"notify"},
   link   |-> NoLink,
   pc     |-> IF notifyOk THEN "beep" ELSE "thrown"]

\* try { await execAsync(...) } catch {}: a failed exec is swallowed and the
\* call goes on to the next statement
AfterExec(a, step, ok) == [a EXCEPT !.failed = IF ok THEN @ ELSE @ \cup {step}]

\* variant of ListenerCatch: the error is logged and thrown again
ListenerRethrow(threw) == [logged |-> threw, escaped |-> threw]

\* listener: catch (error) { logger.error(error) }: the error is logged and
\* nothing leaves the listener
ListenerCatch(threw) == [logged |-> threw, escaped |-> FALSE]

(***************************************************************************)
(* index.js: the listeners, each up to its first await.                    *)
(***************************************************************************)
\* the transport hands every (listener, message) pair over at most once
Deliverable(ev) ==
  /\ running
  /\ Cardinality(delivered) < MaxEvents
  /\ ev \notin delivered

\* variant of Listener: a keyword test that alerts uses the keyword list up
ListenerConsumesKeywords(ev, alert, args) ==
  \E notifyOk \in BOOLEAN :
    LET threw == alert /\ ~notifyOk
    IN  /\ delivered' = delivered \cup {ev}
        /\ alerts' = IF alert THEN alerts \cup {StartAlert(ev, args, notifyOk)} ELSE alerts
        /\ errorLog' = IF threw THEN errorLog + 1 ELSE errorLog
        /\ alertAfterFailure' = (alertAfterFailure \/ (alert /\ AnyFailure))
        /\ alert \/ notifyOk
        /\ alertKeywords' = IF alert THEN <<>> ELSE alertKeywords
        /\ UNCHANGED <<env, running>>

\* variant of Listener: the arguments are kept in a variable the listeners
\* share, so a call made while another is in flight passes that one's arguments
ListenerSharesArgs(ev, alert, args) ==
  \E notifyOk \in BOOLEAN, other \in alerts \cup {StartAlert(ev, args, TRUE)} :
    LET threw == alert /\ ~notifyOk
        c     == ListenerCatch(threw)
        used  == IF other.pc \in {"beep", "focus", "open"} THEN other.args ELSE args
    IN  /\ delivered' = delivered \cup {ev}
        /\ alerts' = IF alert THEN alerts \cup {StartAlert(ev, used, notifyOk)} ELSE alerts
        /\ errorLog' = IF c.logged THEN errorLog + 1 ELSE errorLog
        /\ running' = ~c.escaped
        /\ alertAfterFailure' = (alertAfterFailure \/ (alert /\ AnyFailure))
        /\ alert \/ notifyOk
        /\ UNCHANGED <<env, alertKeywords>>

\* what a listener does once it has decided; alert is whether it calls
\* triggerMacAlert with args
Listener(ev, alert, args) ==
  \E notifyOk \in BOOLEAN :
    LET threw == alert /\ ~notifyOk
        c     == ListenerCatch(threw)
    IN  /\ delivered' = delivered \cup {ev}
        /\ alerts' = IF alert THEN alerts \cup {StartAlert(ev, args, notifyOk)} ELSE alerts
        /\ errorLog' = IF c.logged THEN errorLog + 1 ELSE errorLog
        /\ running' = ~c.escaped
        /\ alertAfterFailure' = (alertAfterFailure \/ (alert /\ AnyFailure))
        /\ alert \/ notifyOk
        /\ UNCHANGED <<env, alertKeywords>>

\* app.event('app_mention', ...)
AppMention(ev) ==
  /\ ev.kind = "app_mention"
  /\ Deliverable(ev)
  /\ LET text == ev.text
     IN  Listener(ev, shouldAlert(text, <<"mention">>),
                  [title |-> "On-Call Alert",
                   message |-> OrDefault(text, "You were mentioned"),
                   channel |-> ev.channel, ts |-> ev.ts])

\* app.message(...)
Message(ev) ==
  /\ ev.kind = "message"
  /\ Deliverable(ev)
  /\ IF ~ev.hasText
     THEN Listener(ev, FALSE, [title |-> "", message |-> "", channel |-> "", ts |-> 0])
     ELSE LET text == ev.text
          IN  Listener(ev, shouldAlert(text, <<>>),
                       [title |-> "On-Call Alert", message |-> text,
                        channel |-> ev.channel, ts |-> ev.ts])

(***************************************************************************)
(* macAlert.js: the awaits of triggerMacAlert returning.                   *)
(***************************************************************************)
Replace(a, b) ==
  /\ running
  /\ alerts' = (alerts \ {a}) \cup {b}
  /\ UNCHANGED <<env, alertKeywords, delivered, errorLog, running, alertAfterFailure>>

\* variant of BeepSettles: no try/catch around the beep, a failed beep ends the call
BeepSettlesPropagates(a, ok) ==
  /\ a \in alerts /\ a.pc = "beep"
  /\ Replace(a, IF ok
                THEN [a EXCEPT !.steps = Append(@, "focus"), !.pc = "focus"]
                ELSE [AfterExec(a, "beep", ok) EXCEPT !.pc = "thrown"])

\* await execAsync(`osascript -e 'beep 5'`) settles; the focus exec starts
BeepSettles(a, ok) ==
  /\ a \in alerts /\ a.pc = "beep"
  /\ Replace(a, [AfterExec(a, "beep", ok) EXCEPT !.steps = Append(@, "focus"), !.pc = "focus"])

\* the focus exec settles; the deep link is opened if (channel && ts)
FocusSettles(a, ok) ==
  /\ a \in alerts /\ a.pc = "focus"
  /\ Replace(a, IF HasLink(a.args)
                THEN [AfterExec(a, "focus", ok) EXCEPT !.steps = Append(@, "open"),
                                                       !.link = DeepLink(a.args),
                                                       !.pc = "open"]
                ELSE [AfterExec(a, "focus", ok) EXCEPT !.pc = "done"])

\* variant of OpenSettles: the open is tried again instead of returning
OpenSettlesRetry(a, ok) ==
  /\ a \in alerts /\ a.pc = "open"
  /\ Replace(a, AfterExec(a, "open", ok))

\* await execAsync(`open "${slackDeepLink}"`) settles
OpenSettles(a, ok) ==
  /\ a \in alerts /\ a.pc = "open"
  /\ Replace(a, [AfterExec(a, "open", ok) EXCEPT !.pc = "done"])

(***************************************************************************)
(* Specification.                                                          *)
(***************************************************************************)
Init ==
  /\ env \in Environments
  /\ alertKeywords = LoadAlertKeywords(env)
  /\ delivered = {}
  /\ alerts = {}
  /\ errorLog = 0
  /\ running = TRUE
  /\ alertAfterFailure = FALSE

Next ==
  \/ \E ev \in Events : AppMention(ev)
  \/ \E ev \in Events : Message(ev)
  \/ \E a \in alerts, ok \in BOOLEAN : BeepSettles(a, ok)
  \/ \E a \in alerts, ok \in BOOLEAN : FocusSettles(a, ok)
  \/ \E a \in alerts, ok \in BOOLEAN : OpenSettles(a, ok)

Spec == Init /\ [][Next]_vars

\* every exec that was started settles: it returns or it fails
ExecsSettle ==
  /\ WF_vars(\E a \in alerts, ok \in BOOLEAN : BeepSettles(a, ok))
  /\ WF_vars(\E a \in alerts, ok \in BOOLEAN : FocusSettles(a, ok))
  /\ WF_vars(\E a \in alerts, ok \in BOOLEAN : OpenSettles(a, ok))

FairSpec == Init /\ [][Next]_vars /\ ExecsSettle

(***************************************************************************)
(* Matching alone: any raw ALERT_KEYWORDS value, one event with any text.  *)
(***************************************************************************)
MatchInit ==
  /\ env \in { [ALERT_KEYWORDS |-> raw] : raw \in RawKeywordValues } \cup { <<>> }
               \cup Environments \cup { [ALERT_KEYWORDS |-> " Urgent ,,help,"] }
  /\ alertKeywords = LoadAlertKeywords(env)
  /\ delivered = {}
  /\ alerts = {}
  /\ errorLog = 0
  /\ running = TRUE
  /\ alertAfterFailure = FALSE

MatchNext ==
  \/ \E ev \in MatchEvents : delivered = {} /\ AppMention(ev)
  \/ \E ev \in MatchEvents : delivered = {} /\ Message(ev)

MatchSpec == MatchInit /\ [][MatchNext]_vars

(***************************************************************************)
(* The actuator alone: triggerMacAlert called directly, as testAlert.js    *)
(* does, with or without channel and ts; undefined is "" or 0.             *)
(***************************************************************************)
\* testAlert.js: await triggerMacAlert({ title, message })
TestAlertArgs ==
  [title |-> "Test On-Call Alert", message |-> "This is a local test of the alert system",
   channel |-> "", ts |-> 0]

CallArgs ==
  {TestAlertArgs}
  \cup [title : {"", "On-Call Alert"}, message : {"", "help"},
        channel : {"", "it-support"}, ts : {0, 1}]

\* a direct call is made for no event: the record numbers the call
CallEvent(n) ==
  [kind |-> "call", channel |-> "", ts |-> n, hasText |-> FALSE, text |-> "", bot |-> FALSE]

\* a caller other than a listener calls triggerMacAlert(args)
TriggerMacAlert(args) ==
  /\ running
  /\ Cardinality(alerts) < MaxCalls
  /\ \E notifyOk \in BOOLEAN :
       alerts' = alerts \cup {StartAlert(CallEvent(Cardinality(alerts) + 1), args, notifyOk)}
  /\ UNCHANGED <<env, alertKeywords, delivered, errorLog, running, alertAfterFailure>>

ActuatorInit ==
  /\ env \in Environments \cup { [SLACK_TEAM_ID |-> "T1"] }
  /\ alertKeywords = LoadAlertKeywords(env)
  /\ delivered = {}
  /\ alerts = {}
  /\ errorLog = 0
  /\ running = TRUE
  /\ alertAfterFailure = FALSE

ActuatorNext ==
  \/ \E args \in CallArgs : TriggerMacAlert(args)
  \/ \E a \in alerts, ok \in BOOLEAN : BeepSettles(a, ok)
  \/ \E a \in alerts, ok \in BOOLEAN : FocusSettles(a, ok)
  \/ \E a \in alerts, ok \in BOOLEAN : OpenSettles(a, ok)

ActuatorSpec == ActuatorInit /\ [][ActuatorNext]_vars

(***************************************************************************)
(* Vocabulary of the properties.                                           *)
(***************************************************************************)
\* triggerMacAlert was called for the event
Alerted(ev) == \E a \in alerts : a.event = ev

\* the calls of triggerMacAlert made for one Slack message
AlertsOfMessage(m) == { a \in alerts : MessageOf(a.event) = m }

\* the text a listener works on: event.text || ''
TextOf(ev) == IF ev.hasText THEN ev.text ELSE ""

\* the letters, each as the pair of its upper-case and lower-case form
LetterPairs ==
  { {CharAt(UpperCaseLetters, i), CharAt(LowerCaseLetters, i)} :
      i \in 1..Len(UpperCaseLetters) }

\* two characters are the same letter up to case
SameLetter(c, d) == c = d \/ {c, d} \in LetterPairs

\* k is a substring of text, case-insensitively
OccursIgnoringCase(k, text) ==
  \E i \in 1..(Len(text) + 1 - Len(k)) :
    \A j \in 1..Len(k) : SameLetter(CharAt(text, i + j - 1), CharAt(k, j))

\* some configured keyword is a case-insensitive substring of text
KeywordOccurs(text) ==
  \E n \in 1..Len(alertKeywords) : OccursIgnoringCase(alertKeywords[n], text)

\* a comma-separated setting of the README, as a set of names
SettingNames(name) ==
  LET xs == filterBoolean(mapTrim(split(EnvOr(env, name, ""))))
  IN  { xs[i] : i \in 1..Len(xs) }

\* README: the app ignores bot messages by default (IGNORE_BOTS=true)
IgnoreBots == toLowerCase(EnvOr(env, "IGNORE_BOTS", "true")) = "true"

\* spec 4.3: blocklist first, then a non-empty allowlist must name the channel
ChannelAllowed(channel) ==
  /\ channel \notin SettingNames("CHANNEL_BLOCKLIST")
  /\ SettingNames("CHANNEL_ALLOWLIST") # {} => channel \in SettingNames("CHANNEL_ALLOWLIST")

\* a message event that passes the bot and channel filters and contains a keyword
MatchingMessage(ev) ==
  /\ ev.kind = "message"
  /\ ~(IgnoreBots /\ ev.bot)
  /\ ChannelAllowed(ev.channel)
  /\ KeywordOccurs(TextOf(ev))

\* one atom of a pattern against one character: \s, \d or the character itself
AtomMatches(atom, c) ==
  IF atom = "\\s" THEN IsSpace(c)
  ELSE IF atom = "\\d" THEN c \in {"0", "1", "2", "3", "4", "5", "6", "7", "8", "9"}
  ELSE atom = c

\* the pattern p (atoms, each optionally followed by +) matches a prefix of s
RECURSIVE MatchesHere(_, _)
MatchesHere(p, s) ==
  IF Len(p) = 0 THEN TRUE
  ELSE LET n    == IF CharAt(p, 1) = "\\" THEN 2 ELSE 1
           atom == SubSeq(p, 1, n)
           plus == Len(p) > n /\ CharAt(p, n + 1) = "+"
           rest == SubSeq(p, n + (IF plus THEN 2 ELSE 1), Len(p))
       IN  IF plus
           THEN \E m \in 1..Len(s) :
                  /\ \A j \in 1..m : AtomMatches(atom, CharAt(s, j))
                  /\ MatchesHere(rest, SubSeq(s, m + 1, Len(s)))
           ELSE /\ Len(s) > 0
                /\ AtomMatches(atom, CharAt(s, 1))
                /\ MatchesHere(rest, SubSeq(s, 2, Len(s)))

\* regex search: the pattern matches somewhere in the text
RegexSearch(p, text) ==
  \E i \in 1..(Len(text) + 1) : MatchesHere(p, SubSeq(text, i, Len(text)))

\* README: KEYWORD_PATTERNS, comma-separated regex patterns
PatternOccurs(text) ==
  \E p \in SettingNames("KEYWORD_PATTERNS") : RegexSearch(p, text)

\* README: RATE_LIMIT_MINUTES, cooldown between alerts (default: 5)
RateLimitMinutes == 5

\* minutes between two messages
Gap(a, b) == IF a.ts >= b.ts THEN a.ts - b.ts ELSE b.ts - a.ts

(***************************************************************************)
(* C1: a Slack message, identified by its channel and ts, never causes     *)
(* more than one call of triggerMacAlert, also when it is delivered both   *)
(* as an app_mention event and as a message event containing a keyword.    *)
(***************************************************************************)
C1_AtMostOneAlertPerMessage ==
  \A ev \in delivered : Cardinality(AlertsOfMessage(MessageOf(ev))) <= 1

(***************************************************************************)
(* C2: of two matching messages of one channel less than the cooldown      *)
(* apart, exactly one is alerted on; the other is suppressed.              *)
(***************************************************************************)
C2_CooldownSuppressesSecond ==
  \A e1, e2 \in delivered :
    ( /\ e1 # e2 /\ e1.channel = e2.channel
      /\ MatchingMessage(e1) /\ MatchingMessage(e2)
      /\ Gap(e1, e2) < RateLimitMinutes )
    => Cardinality({ a \in alerts : a.event \in {e1, e2} }) = 1

(***************************************************************************)
(* C3: every delivered app_mention event has its call of triggerMacAlert,  *)
(* whatever its text and whatever the keyword list.                        *)
(***************************************************************************)
C3_MentionAlwaysAlerts ==
  \A ev \in delivered : ev.kind = "app_mention" => Alerted(ev)

C3_Witness ==
  \E ev \in delivered :
    /\ ev.kind = "app_mention" /\ TextOf(ev) = "" /\ alertKeywords = <<>>
    /\ Alerted(ev)

(***************************************************************************)
(* C4: a message event is alerted on, and shouldAlert is true of its text, *)
(* if and only if some configured keyword is a case-insensitive substring  *)
(* of the text.                                                            *)
(***************************************************************************)
C4_KeywordMatchIff ==
  \A ev \in delivered :
    ev.kind = "message" =>
      /\ Alerted(ev) <=> KeywordOccurs(TextOf(ev))
      /\ shouldAlert(TextOf(ev), <<>>) <=> KeywordOccurs(TextOf(ev))

C4_Witness ==
  \E ev \in delivered :
    /\ ev.kind = "message" /\ ev.text = "This is URGENT please help"
    /\ alertKeywords = <<"urgent">>
    /\ Alerted(ev)

(***************************************************************************)
(* C5: a message whose text no keyword occurs in but a configured regex    *)
(* pattern matches is alerted on.                                          *)
(***************************************************************************)
C5_PatternMatchAlerts ==
  \A ev \in delivered :
    ( /\ ev.kind = "message" /\ ev.hasText
      /\ ~(IgnoreBots /\ ev.bot) /\ ChannelAllowed(ev.channel)
      /\ ~KeywordOccurs(ev.text)
      /\ PatternOccurs(ev.text) )
    => Alerted(ev)

(***************************************************************************)
(* C6: no message from a channel of the blocklist is alerted on, whatever  *)
(* the allowlist holds.                                                    *)
(***************************************************************************)
C6_BlocklistedNeverAlerts ==
  \A a \in alerts :
    a.event.kind = "message" => a.event.channel \notin SettingNames("CHANNEL_BLOCKLIST")

(***************************************************************************)
(* C7: with ignore-bots enabled (the default) no bot-authored message is   *)
(* alerted on, even if its text contains a keyword.                        *)
(***************************************************************************)
C7_BotMessagesNeverAlert ==
  IgnoreBots => \A a \in alerts : ~(a.event.kind = "message" /\ a.event.bot)

(***************************************************************************)
(* C8: a message event with empty text, or with no text field, does not    *)
(* match and is not alerted on, for every value of ALERT_KEYWORDS.         *)
(***************************************************************************)
C8_EmptyTextNeverAlerts ==
  \A ev \in delivered :
    (ev.kind = "message" /\ TextOf(ev) = "") =>
      /\ ~Alerted(ev)
      /\ ~shouldAlert(TextOf(ev), <<>>)

C8_Witness ==
  /\ "ALERT_KEYWORDS" \in DOMAIN env
  /\ env["ALERT_KEYWORDS"] = "a,,B"
  /\ \E ev \in delivered : ev.kind = "message" /\ ev.hasText /\ ev.text = "" /\ ~Alerted(ev)

(***************************************************************************)
(* C9: after an actuator step has failed (notify threw, or the beep, focus *)
(* or open exec failed) the process is still running, and every delivered  *)
(* event that is a mention or contains a keyword has been alerted on.      *)
(* alertAfterFailure in the witness records that an event arrived after a  *)
(* failure and was alerted on.                                             *)
(***************************************************************************)
C9_ActuatorFailureIsolated ==
  AnyFailure =>
    /\ running
    /\ \A ev \in delivered :
         Alerted(ev) \/ ~(ev.kind = "app_mention" \/ KeywordOccurs(TextOf(ev)))

C9_Witness ==
  /\ alertAfterFailure
  /\ running
  /\ \E a, b \in alerts :
       /\ a.failed = {"beep", "focus", "open"}
       /\ b.failed = {"notify"}

(***************************************************************************)
(* C10: two matching messages of one channel at least the cooldown apart   *)
(* are both alerted on.  (Written as a disjunction: the pair is closer     *)
(* than the cooldown, or of two channels, or both are alerted on, or one   *)
(* of them is no matching message.)                                        *)
(***************************************************************************)
C10_BothAlertAfterCooldown ==
  \A e1, e2 \in delivered :
    \/ Gap(e1, e2) < RateLimitMinutes
    \/ e1.channel # e2.channel
    \/ (Alerted(e1) /\ Alerted(e2))
    \/ ~(MatchingMessage(e1) /\ MatchingMessage(e2))

C10_Witness ==
  \E e1, e2 \in delivered :
    /\ e1.channel = e2.channel /\ e1.ts + RateLimitMinutes <= e2.ts
    /\ MatchingMessage(e1) /\ MatchingMessage(e2)
    /\ Alerted(e1) /\ Alerted(e2)

(***************************************************************************)
(* Terminal states of an event: Ignored when its listener returned without *)
(* calling triggerMacAlert, Dispatched when the call it made has returned  *)
(* or thrown.  The code has no Suppressed outcome.                         *)
(***************************************************************************)
AlertsOf(ev) == { a \in alerts : a.event = ev }

Ignored(ev) == ev \in delivered /\ AlertsOf(ev) = {}

Dispatched(ev) ==
  ev \in delivered /\ \E a \in AlertsOf(ev) : a.pc \in {"done", "thrown"}

Terminal(ev) == Ignored(ev) \/ Dispatched(ev)

(***************************************************************************)
(* C11: every delivered event eventually is Dispatched or Ignored, given   *)
(* that every exec settles; it never has more than one call of             *)
(* triggerMacAlert, is never both, and once terminal its listener does     *)
(* nothing more: its call stays as it is.  (Again and again all delivered  *)
(* events are terminal: an event delivered at any moment is among them the *)
(* next time, so each one reaches its terminal state.)                     *)
(***************************************************************************)
C11_EachEventTerminatesOnce ==
  /\ []<>(\A ev \in delivered : Terminal(ev))
  /\ [](\A ev \in delivered :
          Cardinality(AlertsOf(ev)) <= 1 /\ ~(Ignored(ev) /\ Dispatched(ev)))
  /\ [][\A ev \in delivered :
          Terminal(ev) => (ev \in delivered' /\ AlertsOf(ev)' = AlertsOf(ev))]_vars

C11_Witness ==
  \E e1, e2 \in delivered :
    /\ Ignored(e1)
    /\ \E a \in AlertsOf(e2) : a.pc = "done" /\ a.steps = <<"notify", "beep", "focus", "open">>

(***************************************************************************)
(* C12: matching has no side effect and gives the same answer every time:  *)
(* no step changes the environment or the keyword list, the list is the    *)
(* one loaded from the environment at start, and the decision taken for    *)
(* every delivered event is the value shouldAlert has for its text and     *)
(* mention flag in every later state.                                      *)
(***************************************************************************)
MentionsOf(ev) == IF ev.kind = "app_mention" THEN <<"mention">> ELSE <<>>

C12_MatchingHasNoSideEffect ==
  /\ [][alertKeywords' = alertKeywords /\ env' = env]_vars
  /\ [](alertKeywords = LoadAlertKeywords(env))
  /\ [](\A ev \in delivered :
          (ev.kind = "message" /\ ~ev.hasText)
          \/ (Alerted(ev) <=> shouldAlert(TextOf(ev), MentionsOf(ev))))

C12_Witness ==
  /\ alertKeywords = <<"urgent">>
  /\ \E e1, e2 \in delivered :
       /\ e1 # e2 /\ e1.kind = "message" /\ e2.kind = "message"
       /\ Alerted(e1) /\ ~Alerted(e2) /\ e2.hasText

(***************************************************************************)
(* Totals.  index.js stores no counters; the totals are counted from the   *)
(* delivered events and the calls of triggerMacAlert, over the messages    *)
(* whose channel passes the channel filter.  A match is a processed        *)
(* message that is not dropped as a bot's and that reached the app_mention *)
(* listener or whose text contains a keyword or a pattern; a suppressed    *)
(* match would be one the listener dropped for the cooldown, which no      *)
(* branch of the listeners does.                                           *)
(***************************************************************************)
PassingMessages ==
  { m \in Messages :
      /\ \E ev \in delivered : MessageOf(ev) = MessageOf(m)
      /\ ChannelAllowed(m.channel) }

IsMatch(m) ==
  /\ ~(IgnoreBots /\ m.bot)
  /\ \/ EventOf("app_mention", m) \in delivered
     \/ m.hasText /\ (KeywordOccurs(m.text) \/ PatternOccurs(m.text))

TotalMatches == Cardinality({ m \in PassingMessages : IsMatch(m) })

TotalAlerts == Cardinality({ a \in alerts : ChannelAllowed(a.event.channel) })

\* the matches a listener dropped for the cooldown: index.js has no such branch
SuppressedMatches == {}

TotalSuppressed == Cardinality(SuppressedMatches)

(***************************************************************************)
(* C13: alerts + suppressed = matches, counted over the messages whose     *)
(* channel passes the channel filter, in every state.                      *)
(***************************************************************************)
C13_AlertsPlusSuppressedIsMatches == TotalAlerts + TotalSuppressed = TotalMatches

(***************************************************************************)
(* C14: a call opens the Slack deep link exactly when it was given both a  *)
(* channel and a ts; a call without them (the test alert) shows the        *)
(* notification and, once notify has returned, beeps, and never opens a    *)
(* link; a link that is opened carries the call's own channel and ts.      *)
(***************************************************************************)
BothPresent(args) == args.channel # "" /\ args.ts # 0

OpenAttempted(a) == \E i \in 1..Len(a.steps) : a.steps[i] = "open"

PastFocus(a) == a.pc \in {"open", "done"}

C14_DeepLinkIffChannelAndTs ==
  \A a \in alerts :
    /\ OpenAttempted(a) => BothPresent(a.args)
    /\ (PastFocus(a) /\ BothPresent(a.args)) => OpenAttempted(a)
    /\ OpenAttempted(a) <=> a.link # NoLink
    /\ OpenAttempted(a) => (a.link.id = a.args.channel /\ a.link.message = a.args.ts)
    /\ ~BothPresent(a.args) =>
         /\ a.steps[1] = "notify"
         /\ a.pc # "thrown" => (Len(a.steps) >= 2 /\ a.steps[2] = "beep")
         /\ a.pc = "done" => a.steps = <<"notify", "beep", "focus">>

C14_Witness ==
  \E a \in alerts :
    /\ a.args = TestAlertArgs /\ a.pc = "done"
    /\ a.shown.title = "Test On-Call Alert"
    /\ a.steps = <<"notify", "beep", "focus">> /\ a.link = NoLink

(***************************************************************************)
(* C15: the steps of a call run in the order notify, beep, focus, open;    *)
(* a beep or focus that failed is followed by the next step all the same,  *)
(* and a call with channel and ts that got past the focus step has opened  *)
(* the link whatever failed before.                                        *)
(***************************************************************************)
StepOrder == <<"notify", "beep", "focus", "open">>

IsPrefix(s, t) == Len(s) <= Len(t) /\ s = SubSeq(t, 1, Len(s))

HasStep(a, step) == \E i \in 1..Len(a.steps) : a.steps[i] = step

C15_StepsInOrderFailuresDoNotSkip ==
  \A a \in alerts :
    /\ IsPrefix(a.steps, StepOrder)
    /\ "beep" \in a.failed => HasStep(a, "focus")
    /\ ("focus" \in a.failed /\ BothPresent(a.args)) => HasStep(a, "open")
    /\ (a.pc = "done" /\ BothPresent(a.args)) => a.steps = StepOrder
    /\ a.pc = "thrown" <=> "notify" \in a.failed

C15_Witness ==
  \E a \in alerts :
    /\ {"beep", "focus"} \subseteq a.failed
    /\ a.pc = "done"
    /\ a.steps = StepOrder
    /\ a.link.id = a.args.channel

(***************************************************************************)
(* C16: whatever the interleaving of the listeners and of the calls in     *)
(* flight, an event is alerted on exactly when it is a mention or its text *)
(* contains a keyword, and the call made for it carries the title, the     *)
(* message, the channel and the ts of that event alone.                    *)
(***************************************************************************)
ExpectedAlert(ev) ==
  \/ ev.kind = "app_mention"
  \/ ev.hasText /\ KeywordOccurs(ev.text)

ExpectedArgs(ev) ==
  [title   |-> "On-Call Alert",
   message |-> IF ev.kind = "app_mention" /\ TextOf(ev) = ""
               THEN "You were mentioned" ELSE TextOf(ev),
   channel |-> ev.channel,
   ts      |-> ev.ts]

C16_OutcomeIndependentOfInterleaving ==
  /\ \A a \in alerts :
       /\ a.event \in delivered
       /\ a.args = ExpectedArgs(a.event)
       /\ a.shown.message = ExpectedArgs(a.event).message
       /\ a.shown.subtitle = "Channel: " \o a.event.channel
       /\ a.link # NoLink => (a.link.id = a.event.channel /\ a.link.message = a.event.ts)
  /\ \A ev \in delivered :
       /\ Cardinality(AlertsOf(ev)) <= 1
       /\ Alerted(ev) <=> ExpectedAlert(ev)

C16_Witness ==
  \E a, b \in alerts :
    /\ a.event.channel # b.event.channel
    /\ a.pc = "open" /\ b.pc = "beep"
    /\ a.args.message # b.args.message

(***************************************************************************)
(* C17: the keyword list is the non-blank comma-separated entries of       *)
(* ALERT_KEYWORDS, each without surrounding whitespace, in the order they  *)
(* are written; when the setting is unset, empty or only commas and        *)
(* whitespace the list is empty, no message event is alerted on and every  *)
(* app_mention event is.                                                   *)
(***************************************************************************)
RawKeywords == IF "ALERT_KEYWORDS" \in DOMAIN env THEN env["ALERT_KEYWORDS"] ELSE ""

\* the positions just outside the entries of raw: the commas and the two ends
Cuts(raw) == {0, Len(raw) + 1} \cup { i \in 1..Len(raw) : CharAt(raw, i) = "," }

\* an entry runs from the first to the last non-blank position between two
\* neighbouring cuts
EntrySpans(raw) ==
  LET cuts    == Cuts(raw)
      solid   == { i \in 1..Len(raw) : i \notin cuts /\ ~IsSpace(CharAt(raw, i)) }
      prev(i) == CHOOSE p \in cuts : p < i /\ \A q \in cuts : q < i => q <= p
      firsts  == { i \in solid : \A j \in solid : j < i => j < prev(i) }
      lasts   == { i \in solid : \A j \in solid : j > i => prev(j) > i }
  IN  { <<lo, hi>> \in firsts \X lasts : lo <= hi /\ prev(lo) = prev(hi) }

ExpectedKeywords ==
  LET raw   == RawKeywords
      spans == EntrySpans(raw)
  IN  [ n \in 1..Cardinality(spans) |->
          LET span == CHOOSE x \in spans : Cardinality({ y \in spans : y[1] < x[1] }) = n - 1
          IN  SubSeq(raw, span[1], span[2]) ]

BlankSetting ==
  \A i \in 1..Len(RawKeywords) : CharAt(RawKeywords, i) = "," \/ IsSpace(CharAt(RawKeywords, i))

C17_KeywordListTrimmedNonEmpty ==
  /\ alertKeywords = ExpectedKeywords
  /\ \A n \in 1..Len(alertKeywords) :
       LET k == alertKeywords[n]
       IN  Len(k) > 0 /\ ~IsSpace(CharAt(k, 1)) /\ ~IsSpace(CharAt(k, Len(k)))
  /\ BlankSetting <=> alertKeywords = <<>>
  /\ BlankSetting => \A ev \in delivered : Alerted(ev) <=> ev.kind = "app_mention"

C17_Witness ==
  /\ RawKeywords = ", ,"
  /\ alertKeywords = <<>>
  /\ \E ev \in delivered :
       ev.kind = "message" /\ ev.text = "This is URGENT please help" /\ ~Alerted(ev)

====
